---- MODULE Spec2Model ----
(***************************************************************************)
(* Model of the Metis art-search service (src/app.py): the per-museum      *)
(* source functions, the scoring helpers and the /search handler with its  *)
(* worker pool.                                                            *)
(*                                                                         *)
(* Conventions.  A Python string is a sequence of tokens; a JSON value is  *)
(* a record [k, toks] with k in {"null", "str", "num"}.  Scores are        *)
(* integers in units of 0.0001, so that min(score / 10.0, 1.0) of a raw    *)
(* score kept in units of 0.001 is the same integer capped at 10000.       *)
(***************************************************************************)
EXTENDS Integers, Sequences, FiniteSets, TLC

(***************************************************************************)
(* Bounds of the model                                                     *)
(***************************************************************************)
MaxIds == 2          \* longest mixed list of object ids / raw records a server returns
BulkLen == 21        \* length of the one long answer a server may return

(***************************************************************************)
(* JSON values and Python truthiness                                       *)
(***************************************************************************)
JNull == [k |-> "null", toks |-> <<>>]
JNum == [k |-> "num", toks |-> <<>>]
JStr(toks) == [k |-> "str", toks |-> toks]
JAbsent == [k |-> "absent", toks |-> <<>>]     \* the key is not in the object

\* raw.get(key, default) for a field v of a raw object
RawGet(v, default) == IF v = JAbsent THEN default ELSE v

\* dict.get(key, default): the default only replaces a missing key
Get(d, key, default) == IF key \in DOMAIN d THEN d[key] ELSE default

\* bool(v) for None, a string, a non-zero number
Truthy(v) == (v.k = "num") \/ (v.k = "str" /\ v.toks # <<>>)

\* s[:n]
Take(s, n) == IF Len(s) <= n THEN s ELSE SubSeq(s, 1, n)

\* "sub in text" on token sequences: sub occurs as a contiguous run
IsInfix(sub, text) ==
  \E i \in 0..(Len(text) - Len(sub)) :
    \A j \in 1..Len(sub) : text[i + j] = sub[j]

\* str.lower() on one token and on a string
LowerTok(t) ==
  CASE t = "Nature" -> "nature"
    [] t = "Renaissance" -> "renaissance"
    [] t = "Default" -> "default"
    [] t = "Cold War" -> "cold war"
    [] t = "Monet" -> "monet"
    [] OTHER -> t

Lower(s) == [i \in 1..Len(s) |-> LowerTok(s[i])]

RECURSIVE LStrip(_)
LStrip(s) == IF s # <<>> /\ Head(s) = " " THEN LStrip(Tail(s)) ELSE s

RECURSIVE RStrip(_)
RStrip(s) ==
  IF s # <<>> /\ s[Len(s)] = " " THEN RStrip(SubSeq(s, 1, Len(s) - 1)) ELSE s

\* str.strip()
Strip(s) == RStrip(LStrip(s))

(***************************************************************************)
(* Date texts: tokens are [t, v] with t in {"year", "century", "decade",   *)
(* "word"}; a "year" token is a 4-digit number standing alone, a "century" *)
(* token is the text "<v>th century", a "decade" token is "<v>0s".         *)
(***************************************************************************)
Yr(n) == [t |-> "year", v |-> n]
Century(n) == [t |-> "century", v |-> n]
Decade(n) == [t |-> "decade", v |-> n]
Word == [t |-> "word", v |-> 0]
Late == [t |-> "late", v |-> 0]

NoYear == -1         \* Python None as returned by extract_year_from_date

RECURSIVE FirstOf(_, _)
FirstOf(toks, kind) ==
  IF toks = <<>> THEN NoYear
  ELSE IF Head(toks).t = kind THEN Head(toks).v ELSE FirstOf(Tail(toks), kind)

RECURSIVE YearsIn(_)
YearsIn(toks) ==
  IF toks = <<>> THEN {}
  ELSE (IF Head(toks).t = "year" THEN {Head(toks).v} ELSE {}) \cup YearsIn(Tail(toks))

SetMax(S) == CHOOSE m \in S : \A x \in S : x <= m

\* extract_year_from_date: value is [raised, year]; re.search on a
\* non-string raises TypeError
extract_year_from_date(date) ==
  IF ~Truthy(date) THEN [raised |-> FALSE, year |-> NoYear]
  ELSE IF date.k # "str" THEN [raised |-> TRUE, year |-> NoYear]
  ELSE IF FirstOf(date.toks, "year") # NoYear
       THEN [raised |-> FALSE, year |-> FirstOf(date.toks, "year")]
  ELSE IF FirstOf(date.toks, "century") # NoYear
       THEN [raised |-> FALSE, year |-> (FirstOf(date.toks, "century") - 1) * 100 + 50]
  ELSE IF FirstOf(date.toks, "decade") # NoYear
       THEN [raised |-> FALSE, year |-> FirstOf(date.toks, "decade") * 10 + 5]
  ELSE [raised |-> FALSE, year |-> NoYear]

HasTok(toks, tok) == \E i \in 1..Len(toks) : toks[i] = tok

\* is_contemporary: str(date_str) never raises (a number prints as digits
\* that are not a 19xx / 20xx year here); years are the 19xx / 20xx numbers
\* of the text
is_contemporary(date) ==
  IF ~Truthy(date) THEN FALSE
  ELSE IF date.k # "str" THEN FALSE
  ELSE LET years == {y \in YearsIn(date.toks) : y >= 1900 /\ y <= 2099}
       IN  IF HasTok(date.toks, Century(21)) THEN TRUE
           ELSE IF HasTok(date.toks, Century(20)) /\ HasTok(date.toks, Late) THEN TRUE
           ELSE IF years # {} THEN SetMax(years) >= 1970
           ELSE FALSE

(***************************************************************************)
(* Image check and metadata filter                                         *)
(***************************************************************************)
invalid_indicators ==
  {"unknown", "placeholder", "no-image", "default", "missing",
   "not-available", "null", "none"}

\* has_valid_image: image_url is None or a string in every caller modelled
has_valid_image(artwork) ==
  LET image_url == Get(artwork, "image_url", JStr(<<>>))
  IN  IF ~Truthy(image_url) THEN FALSE
      ELSE ~(\E i \in 1..Len(image_url.toks) :
               LowerTok(image_url.toks[i]) \in invalid_indicators)

FilterSeq(s, Keep(_)) ==
  LET F[i \in 0..Len(s)] ==
        IF i = 0 THEN <<>>
        ELSE IF Keep(s[i]) THEN Append(F[i - 1], s[i]) ELSE F[i - 1]
  IN  F[Len(s)]

KeepValid(artwork) ==
  /\ has_valid_image(artwork)
  /\ Truthy(Get(artwork, "title", JNull))
  /\ Truthy(Get(artwork, "date", JNull))
  /\ \/ Truthy(Get(artwork, "description", JNull))
     \/ Truthy(Get(artwork, "medium", JNull))
     \/ Truthy(Get(artwork, "culture", JNull))
     \/ Truthy(Get(artwork, "period", JNull))

filter_valid_artworks(artworks) == FilterSeq(artworks, KeepValid)

(***************************************************************************)
(* Themes and historical periods                                           *)
(***************************************************************************)
P(name, start, end, aliases, keywords) ==
  [name |-> name, start |-> start, end |-> end,
   aliases |-> aliases, keywords |-> keywords]

\* the dict literal of get_time_period, entry by entry as written
historical_periods_literal ==
  << P("cold war", 1947, 1991, {},
       {"iron curtain", "nuclear", "atomic", "communist", "soviet",
        "propaganda", "space race", "berlin wall", "vietnam war",
        "korean war", "arms race", "missile crisis", "mccarthyism"}),
     P("world war 2", 1939, 1945, {"ww2", "wwii", "second world war"}, {}),
     P("world war 1", 1914, 1918, {"ww1", "wwi", "first world war", "great war"}, {}),
     P("cold war", 1947, 1991, {}, {}),
     P("vietnam war", 1955, 1975, {}, {}),
     P("korean war", 1950, 1953, {}, {}),
     P("great depression", 1929, 1939, {}, {}),
     P("civil rights movement", 1954, 1968, {}, {}),
     P("industrial revolution", 1760, 1840, {}, {}),
     P("renaissance", 1300, 1600, {}, {}),
     P("medieval period", 476, 1450, {"middle ages", "medieval era"}, {}),
     P("gilded age", 1870, 1900, {}, {}),
     P("roaring twenties", 1920, 1929, {"1920s"}, {}),
     P("progressive era", 1896, 1916, {}, {}),
     P("reconstruction era", 1865, 1877, {"reconstruction period"}, {}),
     P("victorian era", 1837, 1901, {"victorian period"}, {}) >>

\* a Python dict built from a literal: a key keeps the position of its first
\* occurrence and takes the value of its last one
DictItems(lit) ==
  LET LastOf(i) == CHOOSE j \in i..Len(lit) :
                     /\ lit[j].name = lit[i].name
                     /\ \A m \in (j + 1)..Len(lit) : lit[m].name # lit[i].name
      IsFirst(i) == \A m \in 1..(i - 1) : lit[m].name # lit[i].name
      F[i \in 0..Len(lit)] ==
        IF i = 0 THEN <<>>
        ELSE IF IsFirst(i) THEN Append(F[i - 1], lit[LastOf(i)]) ELSE F[i - 1]
  IN  F[Len(lit)]

historical_periods == DictItems(historical_periods_literal)

\* the number N of a theme token "Nth century", 0 for any other token
CenturyOf(tok) ==
  CASE tok = "19th century" -> 19
    [] tok = "5th century" -> 5
    [] OTHER -> 0

\* the digits D of a theme token "D0s", -1 for any other token
DecadeOf(tok) ==
  CASE tok = "1960s" -> 196
    [] tok = "1920s" -> 192
    [] OTHER -> -1

NotHistorical ==
  [is_historical_period |-> FALSE, name |-> "", start |-> 0, end |-> 0, keywords |-> {}]

\* get_time_period with the decade test ahead of the century test
get_time_period_DecadeFirst(theme) ==
  LET Min(S) == CHOOSE m \in S : \A x \in S : m <= x
      Named(info) ==
        [is_historical_period |-> TRUE, name |-> info.name,
         start |-> info.start, end |-> info.end, keywords |-> info.keywords]
      OfCentury(tok, century) ==
        [is_historical_period |-> TRUE, name |-> tok,
         start |-> (century - 1) * 100, end |-> century * 100, keywords |-> {}]
      OfDecade(tok, decade_start) ==
        [is_historical_period |-> TRUE, name |-> tok,
         start |-> decade_start, end |-> decade_start + 9, keywords |-> {}]
      Pick(theme_lower, periods, hits, cents, decs) ==
        IF hits # {} THEN Named(periods[Min(hits)])
        ELSE IF decs # {} THEN OfDecade(theme_lower[Min(decs)],
                                        DecadeOf(theme_lower[Min(decs)]) * 10)
        ELSE IF cents # {} THEN OfCentury(theme_lower[Min(cents)],
                                          CenturyOf(theme_lower[Min(cents)]))
        ELSE NotHistorical
      Scan(theme_lower, periods) ==
        Pick(theme_lower, periods,
             {i \in 1..Len(periods) :
                \/ HasTok(theme_lower, periods[i].name)
                \/ \E a \in periods[i].aliases : HasTok(theme_lower, a)},
             {i \in 1..Len(theme_lower) : CenturyOf(theme_lower[i]) # 0},
             {i \in 1..Len(theme_lower) : DecadeOf(theme_lower[i]) # -1})
  IN  Scan(Lower(theme), historical_periods)

\* the three loops of get_time_period, in their order: the named periods and
\* their aliases, "Nth century", "D0s"
get_time_period(theme) ==
  LET Min(S) == CHOOSE m \in S : \A x \in S : m <= x
      Named(info) ==
        [is_historical_period |-> TRUE, name |-> info.name,
         start |-> info.start, end |-> info.end, keywords |-> info.keywords]
      OfCentury(tok, century) ==
        [is_historical_period |-> TRUE, name |-> tok,
         start |-> (century - 1) * 100, end |-> century * 100, keywords |-> {}]
      OfDecade(tok, decade_start) ==
        [is_historical_period |-> TRUE, name |-> tok,
         start |-> decade_start, end |-> decade_start + 9, keywords |-> {}]
      Pick(theme_lower, periods, hits, cents, decs) ==
        IF hits # {} THEN Named(periods[Min(hits)])
        ELSE IF cents # {} THEN OfCentury(theme_lower[Min(cents)],
                                          CenturyOf(theme_lower[Min(cents)]))
        ELSE IF decs # {} THEN OfDecade(theme_lower[Min(decs)],
                                        DecadeOf(theme_lower[Min(decs)]) * 10)
        ELSE NotHistorical
      Scan(theme_lower, periods) ==
        Pick(theme_lower, periods,
             {i \in 1..Len(periods) :
                \/ HasTok(theme_lower, periods[i].name)
                \/ \E a \in periods[i].aliases : HasTok(theme_lower, a)},
             {i \in 1..Len(theme_lower) : CenturyOf(theme_lower[i]) # 0},
             {i \in 1..Len(theme_lower) : DecadeOf(theme_lower[i]) # -1})
  IN  Scan(Lower(theme), historical_periods)

\* preprocess_theme: the spaCy model is loaded when the application module
\* is imported, so the spaCy branch is the one taken; the entities spaCy
\* finds in the themes of the model are none
preprocess_theme(theme) ==
  [original |-> theme, theme_phrase |-> Lower(theme),
   entities |-> {}, use_spacy |-> TRUE]

(***************************************************************************)
(* Relevance score.  The artwork carries two fields that stand for what    *)
(* the run draws from outside the record: sim, the spaCy similarity of the *)
(* theme and the artwork text in units of 0.001 (NoVector when either has  *)
(* no vector or spaCy fails), and rnd, the random.uniform(0, 0.1) draw in  *)
(* units of 0.001.                                                         *)
(***************************************************************************)
NoVector == -9999

TextFields ==
  <<"title", "description", "medium", "culture", "period", "style",
    "tags", "classification">>

\* ' '.join(filter(None, [...])).lower()
ArtworkText(artwork) ==
  LET F[i \in 0..Len(TextFields)] ==
        IF i = 0 THEN <<>>
        ELSE LET v == Get(artwork, TextFields[i], JStr(<<>>))
             IN  IF Truthy(v) THEN F[i - 1] \o Lower(v.toks) ELSE F[i - 1]
  IN  F[Len(TextFields)]

\* len(part) > 2 for the artist-name tokens of the model
LongPart(tok) == tok \notin {"li", "se"}

IsArtistPart(artist_toks, tok) ==
  \E i \in 1..Len(artist_toks) : artist_toks[i] = tok /\ LongPart(tok)

\* the artwork text with no part of the artist name taken out
RemovePartsNone(text, artist_toks) == text

\* artwork_text.replace(part, ''): the word goes, the spaces around it stay,
\* so the words on its two sides do not become neighbours
RemoveParts(text, artist_toks) ==
  [i \in 1..Len(text) |-> IF IsArtistPart(artist_toks, text[i]) THEN "" ELSE text[i]]

\* value is [raised, score]; score in units of 0.0001
calculate_relevance_score(artwork, theme_info) ==
  LET temporal(time_period, y) ==
        IF ~time_period.is_historical_period \/ y = NoYear \/ y = 0 THEN 0
        ELSE IF time_period.start <= y /\ y <= time_period.end THEN 5000
        ELSE IF time_period.end < y /\ y <= time_period.end + 10 THEN 2000
        ELSE IF time_period.end + 10 < y /\ y <= time_period.end + 20 THEN 1000
        ELSE 0
      keywords(time_period, artwork_text) ==
        IF time_period.is_historical_period
        THEN 2000 * Cardinality({kw \in time_period.keywords : HasTok(artwork_text, kw)})
        ELSE 0
      spacy(phrase_in) ==
        IF theme_info.use_spacy /\ artwork.sim # NoVector
        THEN artwork.sim * 2 + (IF phrase_in THEN 1000 ELSE 0)
        ELSE 0
      basic(phrase_in) == IF phrase_in THEN 3000 ELSE 0
      entities(artwork_text) ==
        1000 * Cardinality({e \in theme_info.entities : HasTok(artwork_text, e)})
      contemporary(time_period, date) ==
        IF ~time_period.is_historical_period /\ is_contemporary(date) THEN 300 ELSE 0
      \* min(score / 10.0, 1.0)
      Normalized(score) == IF score > 10000 THEN 10000 ELSE score
      Sum(date, artwork_text, time_period, y, phrase_in) ==
        temporal(time_period, y) + keywords(time_period, artwork_text)
          + spacy(phrase_in) + basic(phrase_in) + entities(artwork_text)
          + contemporary(time_period, date) + artwork.rnd
      Scored(artist, date, artwork_text, time_period, yr) ==
        IF artist.k # "str" THEN [raised |-> TRUE, score |-> 0]
        ELSE IF time_period.is_historical_period /\ yr.raised
             THEN [raised |-> TRUE, score |-> 0]
        ELSE [raised |-> FALSE,
              score |-> Normalized(Sum(date, artwork_text, time_period, yr.year,
                                       IsInfix(theme_info.theme_phrase, artwork_text)))]
      OfFields(artist, date) ==
        Scored(artist, date,
               RemoveParts(ArtworkText(artwork), Lower(artist.toks)),
               get_time_period(theme_info.original),
               extract_year_from_date(date))
  IN  OfFields(Get(artwork, "artist", JStr(<<>>)), Get(artwork, "date", JStr(<<>>)))

(***************************************************************************)
(* Python's stable sort with reverse=True: elements with equal keys keep   *)
(* their order                                                             *)
(***************************************************************************)
\* an insertion that puts a pair ahead of the pairs with its own key
InsertDescBeforeEqual(sorted, p) ==
  LET n == Cardinality({i \in 1..Len(sorted) : sorted[i][1] > p[1]})
  IN  SubSeq(sorted, 1, n) \o <<p>> \o SubSeq(sorted, n + 1, Len(sorted))

\* a <<key, element>> pair goes after the pairs whose key is at least its own
InsertDesc(sorted, p) ==
  LET n == Cardinality({i \in 1..Len(sorted) : sorted[i][1] >= p[1]})
  IN  SubSeq(sorted, 1, n) \o <<p>> \o SubSeq(sorted, n + 1, Len(sorted))

SortDesc(s, Key(_)) ==
  LET F[k \in 0..Len(s)] ==
        IF k = 0 THEN <<>> ELSE InsertDesc(F[k - 1], <<Key(s[k]), s[k]>>)
      sorted == F[Len(s)]
  IN  [i \in 1..Len(s) |-> sorted[i][2]]

(***************************************************************************)
(* What a museum server answers.  A raw object is                          *)
(*   [oid, title, artist, date, medium, image, sim, rnd]                   *)
(* under the field names of its source; an answer is [st, valid, items,    *)
(* dst]: st the HTTP status of the search request (0: the request raised), *)
(* valid whether the body parses as JSON, items the objects found, and dst *)
(* the [st, valid] of the detail request of each item, in request order.   *)
(***************************************************************************)
Ok(st) == st # 0 /\ st < 400                \* response.ok

Req(kind, oid, st) == [kind |-> kind, oid |-> oid, st |-> st]

Out(result, requests, raised) ==
  [result |-> result, requests |-> requests, raised |-> raised]

MetFetchLimit == 20

\* the standardized artwork object of search_met_artwork
MetProcessed(raw) ==
  [oid |-> raw.oid, title |-> raw.title, artist |-> raw.artist, date |-> raw.date,
   medium |-> raw.medium, description |-> JStr(<<>>), image_url |-> raw.image,
   source |-> "Metropolitan Museum of Art", sim |-> raw.sim, rnd |-> raw.rnd]

MetScored(a, theme_info) ==
  [oid |-> a.oid, title |-> a.title, artist |-> a.artist, date |-> a.date,
   medium |-> a.medium, description |-> a.description, image_url |-> a.image_url,
   source |-> a.source, score |-> calculate_relevance_score(a, theme_info).score]

ScoreField(a) == a.score

\* the detail loop: state after the first k object ids; "continue" on a
\* response that is not ok, the function's except clause on anything raised
MetLoop(ids, dst) ==
  LET F[k \in 0..Len(ids)] ==
        IF k = 0 THEN [artworks |-> <<>>, requests |-> <<>>, aborted |-> FALSE]
        ELSE LET before == F[k - 1]
                 reqs == Append(before.requests, Req("detail", ids[k].oid, dst[k].st))
             IN  IF before.aborted THEN before
                 ELSE IF dst[k].st = 0
                      THEN [before EXCEPT !.requests = reqs, !.aborted = TRUE]
                 ELSE IF ~Ok(dst[k].st)
                      THEN [before EXCEPT !.requests = reqs]
                 ELSE IF ~dst[k].valid
                      THEN [before EXCEPT !.requests = reqs, !.aborted = TRUE]
                 ELSE IF has_valid_image(MetProcessed(ids[k]))
                      THEN [before EXCEPT !.requests = reqs,
                                          !.artworks = Append(@, MetProcessed(ids[k]))]
                 ELSE [before EXCEPT !.requests = reqs]
  IN  F[Len(ids)]

search_met_artwork(theme, ans) ==
  LET first == <<Req("search", 0, ans.st)>>
      Rank(theme_info, loop, valid_artworks) ==
        IF \/ loop.aborted
           \/ \E i \in 1..Len(valid_artworks) :
                calculate_relevance_score(valid_artworks[i], theme_info).raised
        THEN Out(<<>>, first \o loop.requests, FALSE)
        ELSE Out(SortDesc([i \in 1..Len(valid_artworks) |->
                             MetScored(valid_artworks[i], theme_info)], ScoreField),
                 first \o loop.requests, FALSE)
      Details(theme_info, loop) ==
        Rank(theme_info, loop, filter_valid_artworks(loop.artworks))
  IN  IF ans.st = 0 \/ ~Ok(ans.st) \/ ~ans.valid \/ ans.items = <<>>
      THEN Out(<<>>, first, FALSE)
      ELSE Details(preprocess_theme(theme),
                   MetLoop(Take(ans.items, MetFetchLimit), ans.dst))

(***************************************************************************)
(* The sources of the handler, in submission order.  cls: "met", "aic",    *)
(* "top5" (image filter, sort, first 5), "rijks" (detail request per       *)
(* object, sort, first 5), "plain" (every object, server order).  seen:    *)
(* the raw fields that carry, in that source, the key name the scorer      *)
(* reads; artist_dict: the source reads the artist as a nested object;     *)
(* score_first: the score is computed before the image test.               *)
(***************************************************************************)
Src(api, label, cls, seen, artist_dict, score_first) ==
  [api |-> api, label |-> label, cls |-> cls, seen |-> seen,
   artist_dict |-> artist_dict, score_first |-> score_first]

search_functions ==
  << Src("Met Museum", "Metropolitan Museum of Art", "met", {"title", "artist", "date", "medium"}, FALSE, FALSE),
     Src("Art Institute of Chicago", "Art Institute of Chicago", "aic", {"title"}, FALSE, FALSE),
     Src("Harvard Art Museums", "Harvard Art Museums", "top5", {"title"}, FALSE, FALSE),
     Src("Yale University Art Gallery", "Yale University Art Gallery", "top5", {"title", "medium"}, FALSE, FALSE),
     Src("Rijksmuseum", "Rijksmuseum", "rijks", {"title"}, FALSE, TRUE),
     Src("Smithsonian", "Smithsonian American Art Museum", "top5", {"title", "date"}, FALSE, TRUE),
     Src("Victoria and Albert Museum", "Victoria and Albert Museum", "top5", {"title", "date"}, FALSE, TRUE),
     Src("MoMA", "Museum of Modern Art", "plain", {"title", "artist", "date", "medium"}, TRUE, TRUE),
     Src("Tate", "Tate Modern", "plain", {"title", "artist", "medium"}, FALSE, TRUE),
     Src("Centre Pompidou", "Centre Pompidou", "plain", {"title", "artist", "date", "medium"}, FALSE, TRUE),
     Src("Guggenheim", "Guggenheim Museum", "plain", {"title", "artist", "date", "medium"}, TRUE, TRUE),
     Src("Whitney Museum", "Whitney Museum", "plain", {"title", "artist", "date", "medium"}, FALSE, TRUE),
     Src("LACMA", "Los Angeles County Museum of Art", "plain", {"title", "artist", "date", "medium"}, FALSE, TRUE),
     Src("Stanford Museums", "Stanford University Museums", "plain", {"title", "date", "medium"}, FALSE, TRUE),
     Src("Princeton Art Museum", "Princeton University Art Museum", "plain", {"title", "date", "medium"}, FALSE, TRUE),
     Src("Oxford Museums", "Oxford University Museums", "plain", {"title", "date"}, FALSE, TRUE),
     Src("Google Arts & Culture", "Google Arts & Culture", "plain", {"title", "date", "medium"}, FALSE, TRUE),
     Src("Europeana", "Europeana Collections", "plain", {"title"}, FALSE, TRUE),
     Src("Digital Public Library of America", "Digital Public Library of America", "plain", {"title", "date"}, FALSE, TRUE) >>

NumSources == Len(search_functions)
Sources == 1..NumSources
Met == 1
Aic == 2
KeyGated == Sources \ {Met, Aic}

TopN == 5

\* the dict the scorer is handed: the raw object under its own key names
ScorerView(src, raw) ==
  [f \in search_functions[src].seen |-> RawGet(raw[f], JStr(<<>>))]
    @@ [sim |-> raw.sim, rnd |-> raw.rnd]

AicImageUrl(image) == JStr(<<"https", "artic", "iiif">> \o image.toks \o <<"default">>)

\* the record a source other than the Met appends
Artwork(src, raw, theme_info) ==
  [oid |-> raw.oid,
   title |-> RawGet(raw.title, JStr(<<"Unknown">>)),
   artist |-> RawGet(raw.artist, JStr(<<"Unknown", "Artist">>)),
   date |-> RawGet(raw.date, JStr(<<Word, Word>>)),
   image_url |-> IF src = Aic THEN AicImageUrl(raw.image)
                 ELSE RawGet(raw.image, JStr(<<>>)),
   source |-> search_functions[src].label,
   relevance_score |-> calculate_relevance_score(ScorerView(src, raw), theme_info).score,
   is_contemporary |-> is_contemporary(RawGet(raw.date, JStr(<<>>)))]

\* key=lambda x: (x['is_contemporary'], x['relevance_score'])
ContemporaryKey(a) == (IF a.is_contemporary THEN 100000 ELSE 0) + a.relevance_score

\* what makes the body of the loop raise on one raw object
ItemRaises(src, raw, theme_info) ==
  \/ calculate_relevance_score(ScorerView(src, raw), theme_info).raised
  \/ search_functions[src].artist_dict /\ raw.artist # JAbsent

\* the loop over the objects of the answer
SourceLoop(src, ans, theme_info) ==
  LET cls == search_functions[src].cls
      filtered == cls \in {"aic", "top5"}
      Step(before, raw, d, has_image, rec) ==
        IF before.aborted THEN before
        ELSE IF filtered /\ ~has_image /\ ~search_functions[src].score_first
             THEN before
        ELSE IF ItemRaises(src, raw, theme_info)
             THEN [before EXCEPT !.aborted = TRUE]
        ELSE IF filtered /\ ~has_image THEN before
        ELSE IF cls # "rijks"
             THEN [before EXCEPT !.artworks = Append(@, rec)]
        ELSE IF d.st = 0
             THEN [before EXCEPT !.requests = Append(@, Req("detail", raw.oid, d.st)),
                                 !.aborted = TRUE]
        ELSE IF d.st # 200
             THEN [before EXCEPT !.requests = Append(@, Req("detail", raw.oid, d.st))]
        ELSE IF ~d.valid
             THEN [before EXCEPT !.requests = Append(@, Req("detail", raw.oid, d.st)),
                                 !.aborted = TRUE]
        ELSE [before EXCEPT !.requests = Append(@, Req("detail", raw.oid, d.st)),
                            !.artworks = Append(@, rec)]
      F[k \in 0..Len(ans.items)] ==
        IF k = 0 THEN [artworks |-> <<>>, requests |-> <<>>, aborted |-> FALSE]
        ELSE Step(F[k - 1], ans.items[k], ans.dst[k], Truthy(ans.items[k].image),
                  Artwork(src, ans.items[k], theme_info))
  IN  F[Len(ans.items)]

\* the body shared by every source function except the Met's, after the
\* key test; an exception leaves search_aic_artwork, which has no try block
SourceBody(src, theme, ans) ==
  LET cls == search_functions[src].cls
      first == <<Req("search", 0, ans.st)>>
      Fail(requests) == Out(<<>>, requests, cls = "aic")
      Ordered(artworks) ==
        IF cls = "plain" THEN artworks
        ELSE Take(SortDesc(artworks, ContemporaryKey), TopN)
      Items(loop) ==
        IF loop.aborted THEN Fail(first \o loop.requests)
        ELSE Out(Ordered(loop.artworks), first \o loop.requests, FALSE)
  IN  IF ans.st = 0 THEN Fail(first)
      ELSE IF ans.st # 200 THEN Out(<<>>, first, FALSE)
      ELSE IF ~ans.valid THEN Fail(first)
      ELSE Items(SourceLoop(src, ans, preprocess_theme(theme)))

search_aic_artwork(theme, ans) == SourceBody(Aic, theme, ans)

\* a key-gated source: no key, no request
search_keyed_artwork(src, theme, key_set, ans) ==
  IF ~key_set THEN Out(<<>>, <<>>, FALSE) ELSE SourceBody(src, theme, ans)

\* the source function of a source applied to the answers of its server
SearchFunc(src, theme, key_set, ans) ==
  IF src = Met THEN search_met_artwork(theme, ans)
  ELSE IF src = Aic THEN search_aic_artwork(theme, ans)
  ELSE search_keyed_artwork(src, theme, key_set, ans)

(***************************************************************************)
(* Inputs of the model: raw objects, server answers, request bodies        *)
(***************************************************************************)
Img == JStr(<<"https", "img">>)

RawHit(oid) ==
  [oid |-> oid, title |-> JStr(<<"renaissance", "nature">>), artist |-> JStr(<<"li">>),
   date |-> JStr(<<Yr(1500)>>), medium |-> JStr(<<"oil">>), image |-> Img,
   sim |-> NoVector, rnd |-> 0]

RawLow(oid) ==
  [RawHit(oid) EXCEPT !.title = JStr(<<"still", "life">>),
                      !.date = JStr(<<Yr(1980)>>), !.rnd = 50]

RawNoImage(oid) == [RawHit(oid) EXCEPT !.image = JStr(<<>>)]

RawNumDate(oid) == [RawHit(oid) EXCEPT !.date = JNum]

\* a work of religious subject
RawSaint(oid) == [RawHit(oid) EXCEPT !.title = JStr(<<"saint", "jerome">>)]

RawKinds == {"hit", "low", "noimg", "numdate", "saint"}

Raw(kind, oid) ==
  CASE kind = "hit" -> RawHit(oid)
    [] kind = "low" -> RawLow(oid)
    [] kind = "noimg" -> RawNoImage(oid)
    [] kind = "numdate" -> RawNumDate(oid)
    [] kind = "saint" -> RawSaint(oid)

DetailOk == [st |-> 200, valid |-> TRUE]

Answer(st, valid, items, dst) ==
  [st |-> st, valid |-> valid, items |-> items, dst |-> dst]

\* n objects of one kind, every detail request answered; dup: the server
\* lists the same object id n times
Listing(n, kind, dup) ==
  Answer(200, TRUE, [i \in 1..n |-> Raw(kind, IF dup THEN 1 ELSE i)],
         [i \in 1..n |-> DetailOk])

\* the request raises, is refused, or is answered with a body that is not JSON
FailedAnswers ==
  {Answer(0, FALSE, <<>>, <<>>), Answer(404, TRUE, <<>>, <<>>),
   Answer(200, FALSE, <<>>, <<>>)}

\* what the server of the Met or of the Art Institute answers in the handler runs
HandlerAnswers ==
  FailedAnswers
    \cup {Listing(n, kind, FALSE) : n \in 0..MaxIds, kind \in RawKinds}
    \cup {Listing(2, "hit", TRUE), Listing(BulkLen, "hit", FALSE)}

\* what the server of a key-gated source answers in the handler runs
KeyedAnswers ==
  {Answer(404, TRUE, <<>>, <<>>), Listing(1, "noimg", FALSE), Listing(1, "low", FALSE)}

AnswersOf(s) == IF s \in KeyGated THEN KeyedAnswers ELSE HandlerAnswers

\* the theme of a request body: no such key, null, or a string
ThemeValues ==
  {JAbsent, JNull, JStr(<<>>), JStr(<<" ">>), JStr(<<"nature">>),
   JStr(<<" ", "Renaissance", " ">>)}

\* the keys set in the environment of the deployment
Harvard == 3
Rijks == 5
Tate == 9
KeyConfigs == {{}, {Tate}}

(***************************************************************************)
(* The /search handler and its worker pool                                 *)
(***************************************************************************)
VARIABLES
  pc,            \* where the handler is: "recv", "collect", "shutdown", "done"
  request,       \* the theme value of the request body as received
  keys,          \* the key-gated sources whose API key is set
  theme,         \* the theme after strip()
  tstate,        \* per submitted task: "none", "queued", "running", "done", "raised"
  tresult,       \* per task: the list its source function returned
  idx,           \* the future the result loop is at
  waited,        \* the futures whose result() timed out
  all_results,   \* all_results of the handler
  api_errors,    \* api_errors of the handler
  status,        \* HTTP status of the response, 0 before it is sent
  results,       \* the results list of the response
  call,          \* one direct call of a source function: its inputs and output
  second         \* the locals of a second request, served by the other thread

vars ==
  <<pc, request, keys, theme, tstate, tresult, idx, waited, all_results, api_errors,
    status, results, call, second>>

max_workers == 10
ResultLimit == 20

NoCall == [src |-> 0]

\* the locals of a request the handler has not begun to serve
IdleRequest ==
  [pc |-> "recv", theme |-> <<>>, tstate |-> [s \in Sources |-> "none"],
   tresult |-> [s \in Sources |-> <<>>], idx |-> 1, waited |-> {},
   all_results |-> <<>>, api_errors |-> <<>>, status |-> 0, results |-> <<>>]

HasIO(s) == s \in {Met, Aic} \cup keys

Finished(ts, s) == ts[s] \in {"done", "raised"}

\* Dispatch of a pool that starts a thread for every task submitted
RECURSIVE DispatchUnbounded(_)
DispatchUnbounded(ts) ==
  LET queued == {s \in Sources : ts[s] = "queued"}
      next == CHOOSE s \in queued : \A u \in queued : s <= u
  IN  IF queued = {} THEN ts
      ELSE DispatchUnbounded([ts EXCEPT ![next] = IF HasIO(next) THEN "running" ELSE "done"])

\* the pool: an idle worker takes the oldest queued task at once; a source
\* function that returns at its key test is over as soon as it is taken
RECURSIVE Dispatch(_)
Dispatch(ts) ==
  LET queued == {s \in Sources : ts[s] = "queued"}
      running == {s \in Sources : ts[s] = "running"}
      next == CHOOSE s \in queued : \A u \in queued : s <= u
  IN  IF queued = {} \/ Cardinality(running) >= max_workers THEN ts
      ELSE Dispatch([ts EXCEPT ![next] = IF HasIO(next) THEN "running" ELSE "done"])

\* ParseTheme without the strip() of the theme
ParseThemeNoStrip(body) ==
  IF body.theme \in {JNull, JNum} THEN [raised |-> TRUE, theme |-> <<>>]
  ELSE [raised |-> FALSE, theme |-> RawGet(body.theme, JStr(<<>>)).toks]

\* request parsing: [raised, theme]
ParseTheme(body) ==
  IF body.theme \in {JNull, JNum} THEN [raised |-> TRUE, theme |-> <<>>]
  ELSE [raised |-> FALSE, theme |-> Strip(RawGet(body.theme, JStr(<<>>)).toks)]

Respond(code, list) ==
  /\ pc' = "done"
  /\ status' = code
  /\ results' = list

\* the handler up to the result loop: parse, validate, submit every source function
Receive(body) ==
  /\ pc = "recv"
  /\ request' = body.theme
  /\ LET Handle(parsed) ==
           IF parsed.raised
           THEN /\ Respond(500, <<>>)
                /\ UNCHANGED <<theme, tstate>>
           ELSE IF parsed.theme = <<>>
           THEN /\ Respond(400, <<>>)
                /\ UNCHANGED <<theme, tstate>>
           ELSE /\ pc' = "collect"
                /\ theme' = parsed.theme
                /\ tstate' = Dispatch([s \in Sources |-> "queued"])
                /\ UNCHANGED <<status, results>>
     IN  Handle(ParseTheme(body))
  /\ UNCHANGED <<keys, tresult, idx, waited, all_results, api_errors, call, second>>

\* FinishTask handing the list of a task to the handler also after the wait
\* on it timed out
FinishTaskAddsLate(s, ans) ==
  /\ tstate[s] = "running"
  /\ LET Return(out) ==
           /\ tresult' = [tresult EXCEPT ![s] = out.result]
           /\ tstate' = Dispatch([tstate EXCEPT
                                    ![s] = IF out.raised THEN "raised" ELSE "done"])
           /\ all_results' = IF s \in waited THEN all_results \o out.result
                              ELSE all_results
     IN  Return(SearchFunc(s, theme, s \in keys, ans))
  /\ UNCHANGED <<pc, request, keys, theme, idx, waited, api_errors,
                 status, results, call, second>>

\* a running source function gets the answers of its server and returns
FinishTask(s, ans) ==
  /\ tstate[s] = "running"
  /\ LET Return(out) ==
           /\ tresult' = [tresult EXCEPT ![s] = out.result]
           /\ tstate' = Dispatch([tstate EXCEPT
                                    ![s] = IF out.raised THEN "raised" ELSE "done"])
     IN  Return(SearchFunc(s, theme, s \in keys, ans))
  /\ UNCHANGED <<pc, request, keys, theme, idx, waited, all_results, api_errors,
                 status, results, call, second>>

ApiError(s) == search_functions[s].api

\* ResultLoop putting each list in front of the lists collected before it
RECURSIVE ResultLoopPrepend(_, _, _)
ResultLoopPrepend(i, all, errs) ==
  IF i > NumSources \/ ~Finished(tstate, i)
  THEN [idx |-> i, all_results |-> all, api_errors |-> errs]
  ELSE IF tstate[i] = "raised"
       THEN ResultLoopPrepend(i + 1, all, Append(errs, ApiError(i)))
  ELSE ResultLoopPrepend(i + 1, tresult[i] \o all, errs)

\* the result loop over the futures that are over, up to the first one
\* that is not: [idx, all_results, api_errors]
RECURSIVE ResultLoop(_, _, _)
ResultLoop(i, all, errs) ==
  IF i > NumSources \/ ~Finished(tstate, i)
  THEN [idx |-> i, all_results |-> all, api_errors |-> errs]
  ELSE IF tstate[i] = "raised" THEN ResultLoop(i + 1, all, Append(errs, ApiError(i)))
  ELSE ResultLoop(i + 1, all \o tresult[i], errs)

AfterLoop(i) == IF i > NumSources THEN "shutdown" ELSE "collect"

\* future.result() returns or re-raises for every future that is over
CollectResults ==
  /\ pc = "collect"
  /\ Finished(tstate, idx)
  /\ LET Leave(loop) ==
           /\ idx' = loop.idx
           /\ all_results' = loop.all_results
           /\ api_errors' = loop.api_errors
           /\ pc' = AfterLoop(loop.idx)
     IN  Leave(ResultLoop(idx, all_results, api_errors))
  /\ UNCHANGED <<request, keys, theme, tstate, tresult, waited, status, results, call, second>>

\* a wait that gives up on a future without recording an error
ResultTimeoutSilent ==
  /\ pc = "collect"
  /\ ~Finished(tstate, idx)
  /\ waited' = waited \cup {idx}
  /\ idx' = idx + 1
  /\ pc' = AfterLoop(idx + 1)
  /\ UNCHANGED <<request, keys, theme, tstate, tresult, all_results, api_errors,
                 status, results, call, second>>

\* future.result(timeout=30) gives up on a future that is not over
ResultTimeout ==
  /\ pc = "collect"
  /\ ~Finished(tstate, idx)
  /\ api_errors' = Append(api_errors, ApiError(idx))
  /\ waited' = waited \cup {idx}
  /\ idx' = idx + 1
  /\ pc' = AfterLoop(idx + 1)
  /\ UNCHANGED <<request, keys, theme, tstate, tresult, all_results, status,
                 results, call, second>>

\* score of sort_key: [raised, key]
sort_key(artwork, time_period) ==
  LET Boosted(year) ==
        /\ year # NoYear /\ year # 0
        /\ time_period.start <= year /\ year <= time_period.end
      Key(score, yr) ==
        IF ~time_period.is_historical_period THEN [raised |-> FALSE, key |-> score]
        ELSE IF yr.raised THEN [raised |-> TRUE, key |-> 0]
        ELSE [raised |-> FALSE, key |-> IF Boosted(yr.year) THEN score * 2 ELSE score]
  IN  Key(Get(artwork, "relevance_score", 0),
          extract_year_from_date(Get(artwork, "date", JStr(<<>>))))

\* Aggregation without the cut to the first ResultLimit records
AggregationNoLimit(all, th) ==
  LET Sorted(time_period) ==
        LET Key(a) == sort_key(a, time_period).key
        IN  IF \E i \in 1..Len(all) : sort_key(all[i], time_period).raised
            THEN [status |-> 500, results |-> <<>>]
            ELSE [status |-> 200, results |-> SortDesc(all, Key)]
  IN  IF all = <<>> THEN [status |-> 404, results |-> <<>>]
      ELSE Sorted(get_time_period(th))

\* the handler from the empty-result test to the response: [status, results]
Aggregation(all, th) ==
  LET Sorted(time_period) ==
        LET Key(a) == sort_key(a, time_period).key
        IN  IF \E i \in 1..Len(all) : sort_key(all[i], time_period).raised
            THEN [status |-> 500, results |-> <<>>]
            ELSE [status |-> 200, results |-> Take(SortDesc(all, Key), ResultLimit)]
  IN  IF all = <<>> THEN [status |-> 404, results |-> <<>>]
      ELSE Sorted(get_time_period(th))

\* Aggregate without the test for an empty all_results
AggregateNoEmptyTest ==
  /\ pc = "shutdown"
  /\ \A s \in Sources : Finished(tstate, s)
  /\ LET Send(r) == Respond(IF r.status = 404 THEN 200 ELSE r.status, r.results)
     IN  Send(Aggregation(all_results, theme))
  /\ UNCHANGED <<request, keys, theme, tstate, tresult, idx, waited, all_results,
                 api_errors, call, second>>

\* leaving the with block waits for every task; then the response is built
Aggregate ==
  /\ pc = "shutdown"
  /\ \A s \in Sources : Finished(tstate, s)
  /\ LET Send(r) == Respond(r.status, r.results)
     IN  Send(Aggregation(all_results, theme))
  /\ UNCHANGED <<request, keys, theme, tstate, tresult, idx, waited, all_results,
                 api_errors, call, second>>

\* the body of a 200 response, from the locals it is built from
response ==
  IF api_errors # <<>>
  THEN [results |-> results, total_sources |-> Len(search_functions),
        successful_sources |-> Len(search_functions) - Len(api_errors),
        api_errors |-> api_errors]
  ELSE [results |-> results, total_sources |-> Len(search_functions),
        successful_sources |-> Len(search_functions) - Len(api_errors)]

Init ==
  /\ pc = "recv"
  /\ request = JAbsent
  /\ keys \in KeyConfigs
  /\ theme = <<>>
  /\ tstate = [s \in Sources |-> "none"]
  /\ tresult = [s \in Sources |-> <<>>]
  /\ idx = 1
  /\ waited = {}
  /\ all_results = <<>>
  /\ api_errors = <<>>
  /\ status = 0
  /\ results = <<>>
  /\ call = NoCall
  /\ second = IdleRequest

Next ==
  \/ \E t \in ThemeValues : Receive([theme |-> t])
  \/ \E s \in Sources : \E ans \in AnswersOf(s) : FinishTask(s, ans)
  \/ CollectResults
  \/ ResultTimeout
  \/ Aggregate

Spec == Init /\ [][Next]_vars

\* the answers of the runs checked for progress
LiveAnswers ==
  {Answer(0, FALSE, <<>>, <<>>), Answer(404, TRUE, <<>>, <<>>), Listing(1, "hit", FALSE)}

NextLive ==
  \/ \E t \in ThemeValues : Receive([theme |-> t])
  \/ \E s \in Sources : \E ans \in LiveAnswers : FinishTask(s, ans)
  \/ CollectResults
  \/ ResultTimeout
  \/ Aggregate

\* the handler thread runs on, and a result() that waits gives up after 30
\* seconds; nothing bounds the time a server takes to answer, the requests
\* carrying no timeout
FairSpec ==
  /\ Init
  /\ [][NextLive]_vars
  /\ WF_vars(CollectResults)
  /\ WF_vars(ResultTimeout)
  /\ WF_vars(Aggregate)

(***************************************************************************)
(* Direct calls of the source functions on the answers of their servers    *)
(***************************************************************************)
RawPlaceholder(oid) == [RawHit(oid) EXCEPT !.image = JStr(<<"https", "Default">>)]

SrcKinds == RawKinds \cup {"placeholder"}

SrcRaw(kind, oid) ==
  IF kind = "placeholder" THEN RawPlaceholder(oid) ELSE Raw(kind, oid)

\* the answer to one detail request: fine, a body that is not JSON, refused,
\* rate limited
DetailAnswers ==
  {DetailOk, [st |-> 200, valid |-> FALSE], [st |-> 404, valid |-> TRUE],
   [st |-> 429, valid |-> TRUE]}

SeqsUpTo(S, n) == UNION {[1..m -> S] : m \in 0..n}

HasDetails(src) == search_functions[src].cls \in {"met", "rijks"}

SrcAnswers(src) ==
  FailedAnswers
    \cup {Answer(429, TRUE, <<>>, <<>>), Listing(BulkLen, "hit", FALSE)}
    \cup {Answer(200, TRUE, [i \in 1..Len(ks) |-> SrcRaw(ks[i], i)], ds) :
            <<ks, ds>> \in
              {p \in SeqsUpTo(SrcKinds, MaxIds)
                       \X SeqsUpTo(IF HasDetails(src) THEN DetailAnswers ELSE {DetailOk},
                                   MaxIds) :
                 Len(p[1]) = Len(p[2])}}

CallThemes == {<<"nature">>, <<"Renaissance">>}

CallSource(src, th, key_set, ans) ==
  /\ call' = [src |-> src, theme |-> th, key_set |-> key_set, ans |-> ans,
              out |-> SearchFunc(src, th, key_set, ans)]
  /\ UNCHANGED <<pc, request, keys, theme, tstate, tresult, idx, waited,
                 all_results, api_errors, status, results, second>>

InitSrc ==
  /\ Init
  /\ keys = {}

NextSrc ==
  /\ call = NoCall
  /\ \E src \in Sources, th \in CallThemes, key_set \in BOOLEAN :
       \E ans \in SrcAnswers(src) :
         /\ src \in KeyGated \/ key_set
         /\ CallSource(src, th, key_set, ans)

SpecSrc == InitSrc /\ [][NextSrc]_vars

(***************************************************************************)
(* Two requests at once: gunicorn runs the worker with two threads, each   *)
(* serving one request with the same handler; the second request has its   *)
(* locals in the record second and its own ThreadPoolExecutor              *)
(***************************************************************************)
FirstLocals ==
  <<pc, request, theme, tstate, tresult, idx, waited, all_results, api_errors,
    status, results>>

RECURSIVE ResultLoopOf(_, _, _, _)
ResultLoopOf(r, i, all, errs) ==
  IF i > NumSources \/ ~Finished(r.tstate, i)
  THEN [idx |-> i, all_results |-> all, api_errors |-> errs]
  ELSE IF r.tstate[i] = "raised"
       THEN ResultLoopOf(r, i + 1, all, Append(errs, ApiError(i)))
  ELSE ResultLoopOf(r, i + 1, all \o r.tresult[i], errs)

ReceiveSecond(body) ==
  /\ second.pc = "recv"
  /\ LET Handle(parsed) ==
           IF parsed.raised
           THEN second' = [second EXCEPT !.pc = "done", !.status = 500]
           ELSE IF parsed.theme = <<>>
           THEN second' = [second EXCEPT !.pc = "done", !.status = 400]
           ELSE second' = [second EXCEPT
                             !.pc = "collect", !.theme = parsed.theme,
                             !.tstate = Dispatch([s \in Sources |-> "queued"])]
     IN  Handle(ParseTheme(body))
  /\ UNCHANGED <<FirstLocals, keys, call>>

FinishTaskSecond(s, ans) ==
  /\ second.tstate[s] = "running"
  /\ LET Return(out) ==
           second' = [second EXCEPT
                        !.tresult[s] = out.result,
                        !.tstate = Dispatch([second.tstate EXCEPT
                                     ![s] = IF out.raised THEN "raised" ELSE "done"])]
     IN  Return(SearchFunc(s, second.theme, s \in keys, ans))
  /\ UNCHANGED <<FirstLocals, keys, call>>

\* CollectResultsSecond with all_results and api_errors kept in module-level
\* lists that every request appends to
CollectResultsShared ==
  /\ second.pc = "collect"
  /\ Finished(second.tstate, second.idx)
  /\ LET Leave(loop) ==
           /\ second' = [second EXCEPT
                           !.idx = loop.idx, !.all_results = loop.all_results,
                           !.api_errors = loop.api_errors, !.pc = AfterLoop(loop.idx)]
           /\ all_results' = loop.all_results
           /\ api_errors' = loop.api_errors
     IN  Leave(ResultLoopOf(second, second.idx, all_results, api_errors))
  /\ UNCHANGED <<pc, request, theme, tstate, tresult, idx, waited, status, results,
                 keys, call>>

CollectResultsSecond ==
  /\ second.pc = "collect"
  /\ Finished(second.tstate, second.idx)
  /\ LET Leave(loop) ==
           second' = [second EXCEPT
                        !.idx = loop.idx, !.all_results = loop.all_results,
                        !.api_errors = loop.api_errors, !.pc = AfterLoop(loop.idx)]
     IN  Leave(ResultLoopOf(second, second.idx, second.all_results, second.api_errors))
  /\ UNCHANGED <<FirstLocals, keys, call>>

ResultTimeoutSecond ==
  /\ second.pc = "collect"
  /\ ~Finished(second.tstate, second.idx)
  /\ second' = [second EXCEPT
                  !.api_errors = Append(@, ApiError(second.idx)),
                  !.waited = @ \cup {second.idx},
                  !.idx = @ + 1,
                  !.pc = AfterLoop(second.idx + 1)]
  /\ UNCHANGED <<FirstLocals, keys, call>>

AggregateSecond ==
  /\ second.pc = "shutdown"
  /\ \A s \in Sources : Finished(second.tstate, s)
  /\ LET Send(r) ==
           second' = [second EXCEPT !.pc = "done", !.status = r.status,
                                    !.results = r.results]
     IN  Send(Aggregation(second.all_results, second.theme))
  /\ UNCHANGED <<FirstLocals, keys, call>>

\* the request bodies and the server answers of the runs with two requests
PairThemes == {JStr(<<"nature">>), JStr(<<" ", "Renaissance", " ">>)}

PairAnswers == {Answer(0, FALSE, <<>>, <<>>), Listing(1, "hit", FALSE)}

InitPair ==
  /\ Init
  /\ keys = {}

NextPair ==
  \/ \E t \in PairThemes : Receive([theme |-> t])
  \/ \E s \in Sources : \E ans \in PairAnswers : FinishTask(s, ans)
  \/ CollectResults
  \/ ResultTimeout
  \/ Aggregate
  \/ \E t \in PairThemes : ReceiveSecond([theme |-> t])
  \/ \E s \in Sources : \E ans \in PairAnswers : FinishTaskSecond(s, ans)
  \/ CollectResultsSecond
  \/ ResultTimeoutSecond
  \/ AggregateSecond

SpecPair == InitPair /\ [][NextPair]_vars

(***************************************************************************)
(* A deployment with the keys of nine gated sources set: eleven source     *)
(* functions do requests, eight return at their key test.  The servers of  *)
(* the gated sources are slow: they answer after the handler has stopped   *)
(* waiting for results; the Met and the Art Institute answer at any time.  *)
(***************************************************************************)
PoolKeys == 3..11

PoolAnswers == {Answer(404, TRUE, <<>>, <<>>)}

InitPool ==
  /\ pc = "recv"
  /\ request = JAbsent
  /\ keys = PoolKeys
  /\ theme = <<>>
  /\ tstate = [s \in Sources |-> "none"]
  /\ tresult = [s \in Sources |-> <<>>]
  /\ idx = 1
  /\ waited = {}
  /\ all_results = <<>>
  /\ api_errors = <<>>
  /\ status = 0
  /\ results = <<>>
  /\ call = NoCall
  /\ second = IdleRequest

NextPool ==
  \/ Receive([theme |-> JStr(<<"nature">>)])
  \/ \E s \in Sources : \E ans \in PoolAnswers :
       /\ s \in PoolKeys => pc = "shutdown"
       /\ FinishTask(s, ans)
  \/ CollectResults
  \/ ResultTimeout
  \/ Aggregate

SpecPool == InitPool /\ [][NextPool]_vars

(***************************************************************************)
(* Direct calls of the pure functions on date texts and artworks           *)
(***************************************************************************)
MaxDateLen == 3      \* longest date text, in tokens

DateToks ==
  {Yr(1850), Yr(1875), Yr(1922), Yr(1923), Yr(1969), Yr(1970),
   Century(19), Century(20), Century(21), Decade(196), Late, Word}

DateTexts == SeqsUpTo(DateToks, MaxDateLen)

\* cosine similarities spaCy may return, and none
SimValues == {NoVector, -300, 0, 400, 1000}

\* draws of random.uniform(0, 0.1)
RndValues == {0, 50, 100}

ScoreArtworks ==
  {[Raw(kind, 1) EXCEPT !.sim = sim, !.rnd = rnd] :
     kind \in {"hit", "low"}, sim \in SimValues, rnd \in RndValues}

FnUnchanged ==
  UNCHANGED <<pc, request, keys, theme, tstate, tresult, idx, waited,
              all_results, api_errors, status, results, second>>

CallExtractYear(toks) ==
  /\ call' = [src |-> 0, fn |-> "extract_year_from_date", date |-> toks,
              out |-> extract_year_from_date(JStr(toks))]
  /\ FnUnchanged

CallIsContemporary(toks) ==
  /\ call' = [src |-> 0, fn |-> "is_contemporary", date |-> toks,
              out |-> is_contemporary(JStr(toks))]
  /\ FnUnchanged

CallRelevanceScore(artwork, th) ==
  /\ call' = [src |-> 0, fn |-> "calculate_relevance_score", artwork |-> artwork,
              theme |-> th,
              out |-> calculate_relevance_score(artwork, preprocess_theme(th))]
  /\ FnUnchanged

\* the spans of a text: its contiguous non-empty pieces
Spans(toks) == {SubSeq(toks, i, j) : i \in 1..Len(toks), j \in 1..Len(toks)} \ {<<>>}

EntLabels == {"PERSON", "EVENT"}

\* what doc.ents may hold for nlp(theme.lower()): no entity, or one labelled
\* span of the lowercased theme
NerOutputs(th) ==
  {<<>>} \cup {<<[text |-> span, label |-> label]>> :
                 span \in Spans(Lower(th)), label \in EntLabels}

\* [ent.text for ent in doc.ents if ent.label_ != 'PERSON']
EntityTexts(ents) ==
  LET F[i \in 0..Len(ents)] ==
        IF i = 0 THEN <<>>
        ELSE IF ents[i].label # "PERSON" THEN Append(F[i - 1], ents[i].text)
             ELSE F[i - 1]
  IN  F[Len(ents)]

\* preprocess_theme when spaCy finds the entities ents in the theme
preprocess_theme_ents(th, ents) ==
  [original |-> th, theme_phrase |-> Lower(th),
   entities |-> EntityTexts(ents), use_spacy |-> TRUE]

\* themes of up to two tokens over period names, aliases, century and decade
\* phrases and a plain word
PeriodToks ==
  {"nature", "Renaissance", "Cold War", "ww2", "great war", "1920s", "1960s",
   "19th century", "5th century"}

MaxThemeLen == 2      \* longest theme of the period calls, in tokens

PeriodThemes == SeqsUpTo(PeriodToks, MaxThemeLen)

CallGetTimePeriod(th) ==
  /\ call' = [src |-> 0, fn |-> "get_time_period", theme |-> th,
              out |-> get_time_period(th)]
  /\ FnUnchanged

\* a work whose title holds two of the keywords listed for the Cold War
RawNuclear(oid) ==
  [RawHit(oid) EXCEPT !.title = JStr(<<"nuclear", "propaganda">>),
                      !.date = JStr(<<Yr(1850)>>)]

KeywordArtworks ==
  {[RawNuclear(1) EXCEPT !.sim = sim, !.rnd = rnd] :
     sim \in SimValues, rnd \in RndValues}

\* works whose title names their artist, and themes that are such names
ArtistNames == {<<"claude", "monet">>, <<"li">>}

ArtistTitles ==
  {<<"monet">>, <<"claude", "monet", "garden">>, <<"garden", "monet", "party">>,
   <<"li">>, <<"garden">>}

ArtistArtworks ==
  {[RawHit(1) EXCEPT !.artist = JStr(artist), !.title = JStr(title),
                     !.sim = sim, !.rnd = rnd] :
     artist \in ArtistNames, title \in ArtistTitles,
     sim \in SimValues, rnd \in RndValues}

ArtistThemes ==
  {<<"Monet">>, <<"claude", "monet">>, <<"li">>, <<"garden">>, <<"garden", "party">>}

NerThemes == CallThemes \cup {<<"World", "War">>, <<"Paris", "in", "Spring">>}

CallPreprocessTheme(th, ents) ==
  /\ call' = [src |-> 0, fn |-> "preprocess_theme", theme |-> th, ents |-> ents,
              out |-> preprocess_theme_ents(th, ents)]
  /\ FnUnchanged

InitFn ==
  /\ Init
  /\ keys = {}

NextFn ==
  /\ call = NoCall
  /\ \/ \E toks \in DateTexts : CallExtractYear(toks)
     \/ \E toks \in DateTexts : CallIsContemporary(toks)
     \/ \E artwork \in ScoreArtworks, th \in CallThemes : CallRelevanceScore(artwork, th)
     \/ \E th \in NerThemes : \E ents \in NerOutputs(th) : CallPreprocessTheme(th, ents)
     \/ \E artwork \in ArtistArtworks, th \in ArtistThemes :
          CallRelevanceScore(artwork, th)
     \/ \E th \in PeriodThemes : CallGetTimePeriod(th)
     \/ \E artwork \in KeywordArtworks : CallRelevanceScore(artwork, <<"Cold War">>)

SpecFn == InitFn /\ [][NextFn]_vars

(***************************************************************************)
(* Properties                                                              *)
(***************************************************************************)

\* C1: every search request with a non-empty theme is eventually answered,
\* also when source tasks raise or do not finish within the 30 second wait.
C1_EventuallyResponds == (pc = "collect") ~> (pc = "done")

\* C2: for a request with a non-empty theme, whatever goes wrong inside a
\* source search, the handler answers 200 or 404, never 500.
C2_NoServerError ==
  (pc = "done" /\ theme # <<>>) => status \in {200, 404}

DetailFailed(d) == ~Ok(d.st) \/ ~d.valid

\* the answer without the objects whose detail fetch fails
WithoutFailedDetails(ans) ==
  LET n == IF Len(ans.items) <= MetFetchLimit THEN Len(ans.items) ELSE MetFetchLimit
      F[k \in 0..n] ==
        IF k = 0 THEN [items |-> <<>>, dst |-> <<>>]
        ELSE IF DetailFailed(ans.dst[k]) THEN F[k - 1]
             ELSE [items |-> Append(F[k - 1].items, ans.items[k]),
                   dst |-> Append(F[k - 1].dst, ans.dst[k])]
  IN  Answer(ans.st, ans.valid, F[n].items, F[n].dst)

\* C3: in search_met_artwork a detail fetch that fails (status not 2xx, or a
\* body that is not JSON) skips only that object id: the function returns
\* what it returns when the server never lists the failing ids.
C3_FailedDetailSkipsOnlyThatId ==
  (call.src = Met /\ \E k \in 1..Len(call.ans.dst) : DetailFailed(call.ans.dst[k]))
    => call.out.result
         = search_met_artwork(call.theme, WithoutFailedDetails(call.ans)).result

\* C4: once a source has answered 429 to a request of a search, the source
\* function issues no further request to that source.
C4_NoRequestAfter429 ==
  call.src # 0 =>
    \A i \in 1..Len(call.out.requests) :
      call.out.requests[i].st = 429 => i = Len(call.out.requests)

C6_NoInvalidImageReturned ==
  call.src # 0 =>
    \A i \in 1..Len(call.out.result) : has_valid_image(call.out.result[i])

\* the relevance score a source function computed for a record, doubled for a
\* record dated inside the historical period of the theme
ClaimedKey(a) ==
  LET score == IF "score" \in DOMAIN a THEN a.score ELSE a.relevance_score
      time_period == get_time_period(theme)
      y == extract_year_from_date(a.date).year
  IN  IF /\ time_period.is_historical_period
         /\ y # NoYear
         /\ time_period.start <= y /\ y <= time_period.end
      THEN 2 * score ELSE score

\* C7: the results of a 200 response are in non-increasing order of the
\* relevance scores the source functions computed (doubled inside the period
\* of the theme), whichever source a record came from.
C7_SortedByComputedScore ==
  status = 200 =>
    \A i \in 1..Len(results) : \A j \in (i + 1)..Len(results) :
      ClaimedKey(results[i]) >= ClaimedKey(results[j])

\* C8: whatever the sources return, the results list of a response has at
\* most 20 records.
C8_AtMostTwentyResults == Len(results) <= 20

C8_Witness ==
  status = 200 /\ Len(all_results) > 20 /\ Len(results) = 20

\* C9: the results list has at most 10 records of any single source.
C9_AtMostTenPerSource ==
  \A s \in Sources :
    Cardinality({i \in 1..Len(results) :
                   results[i].source = search_functions[s].label}) <= 10

\* C10: the results list has no two records with the same source and the same
\* source-native object id.
C10_NoDuplicateRecords ==
  \A i \in 1..Len(results) : \A j \in (i + 1)..Len(results) :
    ~(results[i].source = results[j].source /\ results[i].oid = results[j].oid)

(***************************************************************************)
(* The religious flag of the Classifier: a keyword of the fixed set occurs *)
(* in the descriptive text of the record                                   *)
(***************************************************************************)
religious_keywords ==
  {"sacred", "divine", "biblical", "saint", "temple", "church", "mosque",
   "shrine", "deity"}

ReligiousFields ==
  <<"title", "culture", "classification", "department", "period", "object_name",
    "description">>

is_religious(artwork) ==
  \E i \in 1..Len(ReligiousFields) :
    /\ ReligiousFields[i] \in DOMAIN artwork
    /\ artwork[ReligiousFields[i]].k = "str"
    /\ \E j \in 1..Len(artwork[ReligiousFields[i]].toks) :
         LowerTok(artwork[ReligiousFields[i]].toks[j]) \in religious_keywords

ReligiousCap == 2

\* C11: the results list of a response has at most 2 records flagged
\* religious, whatever their relevance scores.
C11_AtMostTwoReligious ==
  Cardinality({i \in 1..Len(results) : is_religious(results[i])}) <= ReligiousCap

\* the list each source handed to the aggregation: what its function
\* returned, nothing for a future whose result() timed out
PerSourceList(s) == IF s \in waited THEN <<>> ELSE tresult[s]

RECURSIVE ConcatInSourceOrder(_)
ConcatInSourceOrder(s) ==
  IF s > NumSources THEN <<>> ELSE PerSourceList(s) \o ConcatInSourceOrder(s + 1)

\* C12: the results of a 200 response are a function of the per-source lists
\* alone: the lists concatenated in source order, sorted by the score key and
\* cut to 20, whatever the order in which the tasks ended.
C12_AggregationDetermined ==
  (pc = "done" /\ status = 200)
    => results = Aggregation(ConcatInSourceOrder(1), theme).results

C12_Witness ==
  /\ pc = "done" /\ status = 200
  /\ Cardinality({s \in Sources : s \notin waited /\ tresult[s] # <<>>}) >= 2
  /\ \E s \in waited : tresult[s] # <<>>

\* the locals of the first request, as a record like second
First ==
  [pc |-> pc, theme |-> theme, tstate |-> tstate, tresult |-> tresult, idx |-> idx,
   waited |-> waited, all_results |-> all_results, api_errors |-> api_errors,
   status |-> status, results |-> results]

\* what a request collects from its own tasks alone
RECURSIVE OwnResults(_, _)
OwnResults(r, s) ==
  IF s > NumSources THEN <<>>
  ELSE (IF s \in r.waited THEN <<>> ELSE r.tresult[s]) \o OwnResults(r, s + 1)

RECURSIVE OwnErrors(_, _)
OwnErrors(r, s) ==
  IF s > NumSources THEN <<>>
  ELSE (IF s \in r.waited \/ r.tstate[s] = "raised" THEN <<ApiError(s)>> ELSE <<>>)
         \o OwnErrors(r, s + 1)

AnsweredAlone(r) ==
  (r.pc = "done" /\ r.theme # <<>>) =>
    /\ r.api_errors = OwnErrors(r, 1)
    /\ [status |-> r.status, results |-> r.results]
         = Aggregation(OwnResults(r, 1), r.theme)

\* C13: when two search requests are interleaved, the response and the error
\* list of each are those it produces alone from the answers its own tasks
\* got: nothing one request collects is seen by the other.
C13_RequestsIsolated == AnsweredAlone(First) /\ AnsweredAlone(second)

C13_Witness ==
  /\ pc = "collect" /\ all_results # <<>> /\ api_errors # <<>>
  /\ second.pc = "done" /\ second.status = 200 /\ theme # second.theme
  /\ second.results # all_results

\* how far a task has come
TaskRank(st) ==
  CASE st = "none" -> 0
    [] st = "queued" -> 1
    [] st = "running" -> 2
    [] st \in {"done", "raised"} -> 3

\* C14: during a request at most 10 source functions run at the same time,
\* every one of the 19 is submitted when the request is accepted and has run
\* by the time of the response, and a task never runs a second time.
C14_TenAtATimeEachOnce ==
  /\ [](/\ Cardinality({s \in Sources : tstate[s] = "running"}) <= 10
        /\ (pc \in {"collect", "shutdown"} => \A s \in Sources : tstate[s] # "none")
        /\ ((pc = "done" /\ theme # <<>>) => \A s \in Sources : Finished(tstate, s)))
  /\ [][\A s \in Sources : TaskRank(tstate'[s]) >= TaskRank(tstate[s])]_vars

C14_Witness ==
  /\ Cardinality({s \in Sources : tstate[s] = "running"}) = 10
  /\ \E s \in Sources : tstate[s] = "queued"

\* C15: a gated source whose key is not set returns an empty list, does no
\* request and does not raise, whatever its server would answer, and the
\* handler records no API error for it.
C15_AbsentKeyIsSilent ==
  \A s \in KeyGated \ keys :
    /\ \A ans \in KeyedAnswers :
         search_keyed_artwork(s, theme, FALSE, ans) = Out(<<>>, <<>>, FALSE)
    /\ tstate[s] # "raised"
    /\ \A i \in 1..Len(api_errors) : api_errors[i] # ApiError(s)

Called(fn) == call # NoCall /\ "fn" \in DOMAIN call /\ call.fn = fn

KindsIn(toks) == {toks[i].t : i \in 1..Len(toks)}

\* C16: extract_year_from_date gives the maximum of the 4-digit numbers of
\* the text, a year inside the century for a text with only an "Nth
\* century" phrase, and None (which is not 0) for a text with no number
C16_YearIsLatestOrCenturyOrUnknown ==
  Called("extract_year_from_date") =>
    /\ ~call.out.raised
    /\ YearsIn(call.date) # {} => call.out.year = SetMax(YearsIn(call.date))
    /\ ("century" \in KindsIn(call.date)
          /\ KindsIn(call.date) \cap {"year", "decade"} = {}) =>
         \E i \in 1..Len(call.date) :
           /\ call.date[i].t = "century"
           /\ (call.date[i].v - 1) * 100 <= call.out.year
           /\ call.out.year < call.date[i].v * 100
    /\ KindsIn(call.date) \cap {"year", "century", "decade"} = {} =>
         call.out.year = NoYear /\ NoYear # 0

\* C17: the era flag of a record is true exactly when the year of its date
\* is known and is at least 1923
C17_EraFlagFrom1923 ==
  Called("is_contemporary") =>
    (call.out <=> (/\ extract_year_from_date(JStr(call.date)).year # NoYear
                   /\ extract_year_from_date(JStr(call.date)).year >= 1923))

\* C18: calculate_relevance_score returns a value between 0 and 1 (10000
\* units of 0.0001)
C18_ScoreInUnitInterval ==
  (Called("calculate_relevance_score") /\ ~call.out.raised) =>
    (0 <= call.out.score /\ call.out.score <= 10000)

\* the response of search when the called source is the only one that
\* contributes: its list goes through the result loop and the aggregation
SingleSourceResponse ==
  Aggregation(IF call.out.raised THEN <<>> ELSE call.out.result, call.theme)

\* the raw records of an answer that have an image
WithImage(items) == {i \in 1..Len(items) : Truthy(RawGet(items[i].image, JStr(<<>>)))}

CarriesFlagsAndScore(a) ==
  /\ "is_contemporary" \in DOMAIN a
  /\ "is_religious" \in DOMAIN a
  /\ "relevance_score" \in DOMAIN a
  /\ a.relevance_score >= 0

ExactlyTheImaged(items, list) ==
  /\ Len(list) = Cardinality(WithImage(items))
  /\ {list[i].oid : i \in 1..Len(list)} = {items[i].oid : i \in WithImage(items)}
  /\ \A i \in 1..Len(list) : CarriesFlagsAndScore(list[i])

\* C19: when a single source answers with k records of which m have an
\* image, the response has exactly those m records, each with an era flag, a
\* religious flag and a non-negative relevance_score
C19_ImagedRecordsWithFlags ==
  (/\ call.src # 0
   /\ call.key_set
   /\ call.ans.st = 200 /\ call.ans.valid
   /\ Len(call.ans.items) <= MaxIds
   /\ \A i \in 1..Len(call.ans.items) : call.ans.items[i].image \in {Img, JStr(<<>>)}
   /\ \A i \in 1..Len(call.ans.dst) : ~DetailFailed(call.ans.dst[i]))
    => ExactlyTheImaged(call.ans.items, SingleSourceResponse.results)

\* C20: for a non-empty theme the answer is 404 exactly when no source
\* contributed a record, and otherwise, unless it is an error, 200 with a
\* non-empty results list; a 200 answer never has an empty results list
C20_NotFoundIffNothingContributed ==
  (pc = "done" /\ theme # <<>>) =>
    /\ status = 404 <=> \A s \in Sources : PerSourceList(s) = <<>>
    /\ status \notin {404, 500} => status = 200
    /\ status = 200 => results # <<>>

C20_Witness ==
  /\ pc = "done" /\ theme # <<>> /\ status = 404
  /\ api_errors # <<>>
  /\ \E s \in waited : tresult[s] # <<>>

\* the terms an artwork text is matched against: the theme phrase, then the
\* entities
SearchTerms(theme_info) == <<theme_info.theme_phrase>> \o theme_info.entities

NoDuplicates(list) ==
  \A i \in 1..Len(list) : \A j \in 1..Len(list) : list[i] = list[j] => i = j

\* C21: the theme-processing step gives a list of search terms whose first
\* element is the lowercased theme and that has no duplicate entries; with
\* no match the list is exactly the theme
C21_TermsStartWithThemeNoDuplicates ==
  Called("preprocess_theme") =>
    /\ Head(SearchTerms(call.out)) = Lower(call.theme)
    /\ NoDuplicates(SearchTerms(call.out))
    /\ call.ents = <<>> => SearchTerms(call.out) = <<Lower(call.theme)>>

\* C22: is_contemporary goes by the latest year of the date text with the
\* cutoff 1970: true when that year is 1970 or later, false when it is
\* earlier, false for an empty or unknown date text
C22_LatestYearFrom1970 ==
  Called("is_contemporary") =>
    /\ (YearsIn(call.date) # {} /\ SetMax(YearsIn(call.date)) >= 1970) => call.out
    /\ (YearsIn(call.date) # {} /\ SetMax(YearsIn(call.date)) < 1970) => ~call.out
    /\ KindsIn(call.date) \subseteq {"word"} => ~call.out

cold_war_keywords ==
  {"iron curtain", "nuclear", "atomic", "communist", "soviet", "propaganda",
   "space race", "berlin wall", "vietnam war", "korean war", "arms race",
   "missile crisis", "mccarthyism"}

\* C23: for a theme containing 'cold war' get_time_period returns 1947-1991
\* with the Cold War keyword list, and calculate_relevance_score adds 2.0 to
\* the raw score (0.2 to the result) for each of those keywords in the text
C23_ColdWarKeywordsBoost ==
  /\ (Called("get_time_period") /\ HasTok(Lower(call.theme), "cold war")) =>
       /\ call.out.is_historical_period
       /\ call.out.start = 1947 /\ call.out.end = 1991
       /\ call.out.keywords = cold_war_keywords
  /\ (/\ Called("calculate_relevance_score")
      /\ HasTok(Lower(call.theme), "cold war")
      /\ call.artwork.sim \in {NoVector} \cup 0..1000) =>
       call.out.score >=
         2000 * Cardinality({kw \in cold_war_keywords :
                               HasTok(Lower(call.artwork.title.toks), kw)})

\* the detail requests a Met answer calls for: one per object id among the
\* first 20, in their order
DetailsCalledFor(ans) ==
  LET ids == IF Len(ans.items) <= 20 THEN ans.items ELSE SubSeq(ans.items, 1, 20)
  IN  [i \in 1..Len(ids) |-> ids[i].oid]

SearchAnswered(ans) == Ok(ans.st) /\ ans.valid /\ ans.items # <<>>

\* C24: search_met_artwork issues one search request, then at most 20 detail
\* requests, one per object id among the first 20 ids of the answer and in
\* their order; when the search request is not ok or returns no ids there is
\* no detail request and the result is empty
C24_OneSearchThenDetailsInOrder ==
  call.src = Met =>
    /\ Len(call.out.requests) <= 1 + 20
    /\ call.out.requests[1].kind = "search"
    /\ \A i \in 2..Len(call.out.requests) : call.out.requests[i].kind = "detail"
    /\ SearchAnswered(call.ans) =>
         [i \in 1..(Len(call.out.requests) - 1) |-> call.out.requests[i + 1].oid]
           = DetailsCalledFor(call.ans)
    /\ ~SearchAnswered(call.ans) =>
         Len(call.out.requests) = 1 /\ call.out.result = <<>>

TopFiveSources == {s \in Sources : search_functions[s].cls \in {"aic", "top5", "rijks"}}

\* the positions of the answer's records that were fetched and have an image
FetchedWithImage(src, ans) ==
  {i \in 1..Len(ans.items) :
     /\ Truthy(RawGet(ans.items[i].image, JStr(<<>>)))
     /\ search_functions[src].cls = "rijks" => ~DetailFailed(ans.dst[i])}

ContemporaryFirstThenScore(list) ==
  \A i \in 1..Len(list) : \A j \in (i + 1)..Len(list) :
    /\ list[j].is_contemporary => list[i].is_contemporary
    /\ list[i].is_contemporary = list[j].is_contemporary =>
         list[i].relevance_score >= list[j].relevance_score

\* list is the first five of the order over the records at positions kept
FirstFiveOf(src, th, ans, kept, list) ==
  /\ Len(list) = (IF Cardinality(kept) <= 5 THEN Cardinality(kept) ELSE 5)
  /\ \A i \in 1..Len(list) : \E k \in kept : list[i].oid = ans.items[k].oid
  /\ \A k \in kept :
       \/ \E i \in 1..Len(list) : list[i].oid = ans.items[k].oid
       \/ \A i \in 1..Len(list) :
            ContemporaryKey(list[i])
              >= ContemporaryKey(Artwork(src, ans.items[k], preprocess_theme(th)))

\* C25: each top-5 source function returns at most 5 records, contemporary
\* records first and relevance scores non-increasing within each group; they
\* are the first 5 of that order over all fetched records with an image
C25_TopFiveContemporaryFirst ==
  (/\ call.src \in TopFiveSources
   /\ call.key_set
   /\ call.ans.st = 200 /\ call.ans.valid) =>
    /\ Len(call.out.result) <= 5
    /\ ContemporaryFirstThenScore(call.out.result)
    /\ FirstFiveOf(call.src, call.theme, call.ans,
                   FetchedWithImage(call.src, call.ans), call.out.result)

\* the entries of the dict literal whose name or alias is in the theme
NamedHits(th) ==
  {i \in 1..Len(historical_periods_literal) :
     \/ HasTok(Lower(th), historical_periods_literal[i].name)
     \/ \E a \in historical_periods_literal[i].aliases : HasTok(Lower(th), a)}

CenturyHits(th) == {i \in 1..Len(th) : CenturyOf(Lower(th)[i]) # 0}

DecadeHits(th) == {i \in 1..Len(th) : DecadeOf(Lower(th)[i]) # -1}

\* C26: get_time_period resolves a theme by precedence: a named period or
\* alias, then a century phrase (century N is [(N-1)*100, N*100]), then a
\* decade phrase (D0s is [D0, D0+9]); start <= end in every historical
\* result; a theme matching none is not historical and has no keywords
C26_PeriodPrecedence ==
  Called("get_time_period") =>
    /\ NamedHits(call.theme) # {} =>
         /\ call.out.is_historical_period
         /\ \E i \in NamedHits(call.theme) :
              /\ call.out.name = historical_periods_literal[i].name
              /\ call.out.start = historical_periods_literal[i].start
              /\ call.out.end = historical_periods_literal[i].end
    /\ (NamedHits(call.theme) = {} /\ CenturyHits(call.theme) # {}) =>
         /\ call.out.is_historical_period
         /\ \E i \in CenturyHits(call.theme) :
              /\ call.out.start = (CenturyOf(Lower(call.theme)[i]) - 1) * 100
              /\ call.out.end = CenturyOf(Lower(call.theme)[i]) * 100
    /\ (/\ NamedHits(call.theme) = {} /\ CenturyHits(call.theme) = {}
        /\ DecadeHits(call.theme) # {}) =>
         /\ call.out.is_historical_period
         /\ \E i \in DecadeHits(call.theme) :
              /\ call.out.start = DecadeOf(Lower(call.theme)[i]) * 10
              /\ call.out.end = DecadeOf(Lower(call.theme)[i]) * 10 + 9
    /\ call.out.is_historical_period => call.out.start <= call.out.end
    /\ (/\ NamedHits(call.theme) = {} /\ CenturyHits(call.theme) = {}
        /\ DecadeHits(call.theme) = {}) =>
         ~call.out.is_historical_period /\ call.out.keywords = {}

C26_Witness ==
  /\ Called("get_time_period")
  /\ NamedHits(call.theme) = {}
  /\ CenturyHits(call.theme) # {} /\ DecadeHits(call.theme) # {}
  /\ call.out.start = 1800 /\ call.out.end = 1900

\* the parts of an artist name that are longer than 2 characters
LongParts(artist_toks) ==
  {Lower(artist_toks)[i] : i \in {j \in 1..Len(artist_toks) : LongPart(Lower(artist_toks)[j])}}

\* the most a score can be with no theme-phrase, entity, period or keyword
\* boost: similarity, contemporaneity and the random draw
WithoutBoosts(artwork) ==
  (IF artwork.sim = NoVector THEN 0 ELSE artwork.sim * 2) + 300 + artwork.rnd

RECURSIVE CollectedBefore(_)
CollectedBefore(s) ==
  IF s <= 1 THEN <<>> ELSE CollectedBefore(s - 1) \o PerSourceList(s - 1)

HandlerKey(a) == sort_key(a, get_time_period(theme)).key

\* the records of a list whose sort key is k, in the order of the list
WithKey(list, k) ==
  LET F[i \in 0..Len(list)] ==
        IF i = 0 THEN <<>>
        ELSE IF HandlerKey(list[i]) = k THEN Append(F[i - 1], list[i]) ELSE F[i - 1]
  IN  F[Len(list)]

IsPrefix(a, b) == Len(a) <= Len(b) /\ a = SubSeq(b, 1, Len(a))

\* list is the start of the stable descending order of all
StableTopOf(all, list) ==
  /\ Len(list) = (IF Len(all) <= ResultLimit THEN Len(all) ELSE ResultLimit)
  /\ \A i \in 1..Len(list) : \A j \in (i + 1)..Len(list) :
       HandlerKey(list[i]) >= HandlerKey(list[j])
  /\ \A i \in 1..Len(list) :
       IsPrefix(WithKey(list, HandlerKey(list[i])), WithKey(all, HandlerKey(list[i])))
  /\ \A i \in 1..Len(all) :
       (list # <<>> /\ HandlerKey(all[i]) > HandlerKey(list[Len(list)])) =>
         WithKey(list, HandlerKey(all[i])) = WithKey(all, HandlerKey(all[i]))

\* C28: the result list does not depend on the order in which the tasks
\* end: records are collected in the submission order of the sources, and
\* records with equal sort key keep that order in the response
C28_CompletionOrderIrrelevant ==
  /\ all_results = CollectedBefore(idx)
  /\ (pc = "done" /\ status = 200) => StableTopOf(all_results, results)

C28_Witness ==
  /\ pc = "done" /\ status = 200
  /\ \E i \in 1..Len(results) : \E j \in (i + 1)..Len(results) :
       /\ HandlerKey(results[i]) = HandlerKey(results[j])
       /\ results[i].source # results[j].source
       /\ results[i] # results[j]
  /\ \E i \in 1..Len(results) : HandlerKey(results[i]) # HandlerKey(results[1])

\* C29: the response is sent only after all 19 source tasks have ended,
\* those whose wait timed out included, and the records of a task whose wait
\* timed out are never added to the results, also when it ends later
C29_ResponseAfterAllTasksNoLateRecords ==
  /\ (pc = "done" /\ theme # <<>>) =>
       Cardinality({s \in Sources : Finished(tstate, s)}) = 19
  /\ \A s \in waited :
       /\ \A i \in 1..Len(all_results) :
            all_results[i].source # search_functions[s].label
       /\ \A i \in 1..Len(results) : results[i].source # search_functions[s].label

C29_Witness ==
  /\ pc = "done" /\ status = 200
  /\ \E s \in waited : tstate[s] = "done" /\ tresult[s] # <<>>

\* the sources whose task raised or whose wait timed out
FailedAtHandler == {s \in Sources : tstate[s] = "raised" \/ s \in waited}

ErrorEntries(s) == {i \in 1..Len(api_errors) : api_errors[i] = ApiError(s)}

\* C30: in a 200 response total_sources is 19 and successful_sources is 19
\* minus the number of api_errors entries, at most one per source; a source
\* fails only when its task raised or timed out at the handler, so one that
\* returned an empty list (its own error caught, or no key) is successful;
\* api_errors is in the response exactly when it is non-empty
C30_SourceCounts ==
  (pc = "done" /\ status = 200) =>
    /\ response.total_sources = 19
    /\ response.successful_sources = 19 - Len(api_errors)
    /\ response.successful_sources = 19 - Cardinality(FailedAtHandler)
    /\ \A s \in Sources :
         Cardinality(ErrorEntries(s)) = (IF s \in FailedAtHandler THEN 1 ELSE 0)
    /\ ("api_errors" \in DOMAIN response) <=> (FailedAtHandler # {})

C30_Witness ==
  /\ pc = "done" /\ status = 200
  /\ \E s \in Sources : tstate[s] = "raised" /\ s \notin waited
  /\ waited # {}
  /\ \E s \in KeyGated \ keys : s \notin FailedAtHandler

====
